---- MODULE Spec2Model ----
(***************************************************************************)
(* One replica of a partition (rDSN replica execution core).               *)
(*                                                                         *)
(* The model follows src/src/replica/replica.cpp: the read entry point     *)
(* on_client_read, the commit handler execute_mutation, new_mutation and   *)
(* the decree accessors.  The collaborators whose code is outside the      *)
(* excerpt (prepare_list, replication_app_base, the throttler, the access  *)
(* controller, the split manager, handle_local_failure and the             *)
(* configuration update) are modelled from the design document.            *)
(*                                                                         *)
(* A fatal assertion (dassert / dcheck_eq) ends the process: it sets       *)
(* crashed and no operation runs afterwards.                               *)
(***************************************************************************)
EXTENDS Integers, Sequences, FiniteSets, TLC

\* ---------------------------------------------------------------- bounds
MaxDecree == 2
MaxBallot == 1
MaxQueue == 1
MaxQps == 1
MaxApps == 3

\* ------------------------------------------------------------- constants
PS_INACTIVE == "PS_INACTIVE"
PS_PRIMARY == "PS_PRIMARY"
PS_SECONDARY == "PS_SECONDARY"
PS_POTENTIAL_SECONDARY == "PS_POTENTIAL_SECONDARY"
PS_PARTITION_SPLIT == "PS_PARTITION_SPLIT"
PS_ERROR == "PS_ERROR"

partition_status ==
    {PS_INACTIVE, PS_PRIMARY, PS_SECONDARY, PS_POTENTIAL_SECONDARY,
     PS_PARTITION_SPLIT, PS_ERROR}

LearningNotStarted == "LearningNotStarted"
LearningWithPrepare == "LearningWithPrepare"
LearningWithPrepareTransient == "LearningWithPrepareTransient"
LearningSucceeded == "LearningSucceeded"
LearningFailed == "LearningFailed"

learner_status ==
    {LearningNotStarted, LearningWithPrepare, LearningWithPrepareTransient,
     LearningSucceeded, LearningFailed}

ERR_OK == "ERR_OK"
ERR_ACL_DENY == "ERR_ACL_DENY"
ERR_INVALID_STATE == "ERR_INVALID_STATE"
ERR_BUSY == "ERR_BUSY"
ERR_SPLITTING == "ERR_SPLITTING"
ERR_LOCAL_APP_FAILURE == "ERR_LOCAL_APP_FAILURE"
NO_REPLY == "NO_REPLY"

\* the outcomes of throttle_read_request
THROTTLE_PASS == "pass"
THROTTLE_DELAY == "delay"
THROTTLE_REJECT == "reject"

ThrottleOutcomes == {THROTTLE_PASS, THROTTLE_DELAY, THROTTLE_REJECT}

VARIABLES
    status,                 \* _config.status
    ballot,                 \* _config.ballot
    app_last_committed,     \* _app->last_committed_decree()
    app_last_flushed,       \* _app->last_flushed_decree()
    app_last_durable,       \* _app->last_durable_decree()
    prepare_list,           \* _prepare_list: decree -> mutation slot
    last_committed,         \* _prepare_list->last_committed_decree()
    max_prepared,           \* _prepare_list->max_decree()
    checkpoint_is_running,  \* _secondary_states.checkpoint_is_running
    learning_status,        \* _potential_secondary_states.learning_status
    is_caught_up,           \* _split_states.is_caught_up
    last_prepare_decree_on_new_primary, \* _primary_states.<same name>
    private_log,            \* _private_log != nullptr
    write_queue,            \* _primary_states.write_queue (pending writes)
    backup_request_qps,     \* _counter_backup_request_qps
    crashed,                \* a fatal assertion fired
    rd,                     \* what the last on_client_read did
    ex,                     \* what the last execute_mutation did
    applied,                \* the decrees passed to app.apply_mutation
    disk_migrator,          \* _disk_migrator: its status, or released
    live,                   \* the handles and background work still held
    cl,                     \* the close() calls made so far
    meta,                   \* the meta server's tables and its last reply
    lp,                     \* what the last last_prepared_decree call returned
    delayed                 \* the read the throttler holds for a later resume

vars ==
    <<status, ballot, app_last_committed, app_last_flushed, app_last_durable,
      prepare_list, last_committed, max_prepared, checkpoint_is_running,
      learning_status, is_caught_up, last_prepare_decree_on_new_primary, private_log,
      write_queue, backup_request_qps, crashed, rd, ex, applied,
      disk_migrator, live, cl, meta, lp, delayed>>

\* the state outside the read and commit paths
outer_vars == <<disk_migrator, live, cl, meta, lp, delayed>>

\* the state of the replica
replica_vars ==
    <<status, ballot, app_last_committed, app_last_flushed, app_last_durable,
      prepare_list, last_committed, max_prepared, checkpoint_is_running,
      learning_status, is_caught_up, last_prepare_decree_on_new_primary,
      private_log, write_queue, backup_request_qps, crashed, rd, ex, applied,
      disk_migrator, live, cl, lp, delayed>>

Decrees == 1..MaxDecree

\* the partition id the replica was constructed with (line 76), and the
\* partition id of no replica
get_gpid == [app_id |-> 1, partition_index |-> 0]

NoGpid == [app_id |-> 0, partition_index |-> 0]

\* an empty slot of the prepare list
NoMutation ==
    [present |-> FALSE, pid |-> NoGpid, ballot |-> 0, logged |-> FALSE]

\* replica::new_mutation: the replica's partition id, the ballot current at
\* creation, no log offset
new_mutation(b) ==
    [present |-> TRUE, pid |-> get_gpid, ballot |-> b, logged |-> FALSE]

max_prepared_decree == max_prepared

last_durable_decree == app_last_durable

last_flushed_decree == app_last_flushed

last_committed_decree == last_committed

\* ===================================================== on_client_read ==
\* line 182-183: the roles that never serve a read
RejectsByStatus_inactive_only(st) == st = PS_INACTIVE

RejectsByStatus(st) == st = PS_INACTIVE \/ st = PS_POTENTIAL_SECONDARY

\* line 192-208: a read that is not a backup request needs a primary that
\* has caught up with the prepares it inherited
StaleRead_any_request(backup, st, lc, lpd) == st # PS_PRIMARY \/ lc < lpd

StaleRead_no_window(backup, st, lc, lpd) == ~backup /\ st # PS_PRIMARY

StaleRead(backup, st, lc, lpd) ==
    ~backup /\ (st # PS_PRIMARY \/ lc < lpd)

\* the stage at which on_client_read returns
ReadStage_status_first(allowed, splitReject, st, ignore, thr, backup, lc, lpd) ==
    IF RejectsByStatus(st) THEN "status"
    ELSE IF ~allowed THEN "acl"
    ELSE IF splitReject THEN "split"
    ELSE IF ~ignore /\ thr # THROTTLE_PASS THEN "throttle"
    ELSE IF StaleRead(backup, st, lc, lpd) THEN "stale"
    ELSE "serve"

ReadStage(allowed, splitReject, st, ignore, thr, backup, lc, lpd) ==
    IF ~allowed THEN "acl"
    ELSE IF splitReject THEN "split"
    ELSE IF RejectsByStatus(st) THEN "status"
    ELSE IF ~ignore /\ thr # THROTTLE_PASS THEN "throttle"
    ELSE IF StaleRead(backup, st, lc, lpd) THEN "stale"
    ELSE "serve"

\* line 188: throttle_read_request is called only when the read got that far
\* and ignore_throttling is false
ConsultsThrottler(stage, ignore) ==
    ~ignore /\ stage \in {"throttle", "stale", "serve"}

\* line 209-211: the backup-request counter
CountsBackup_every_serve(stage, backup) == stage = "serve"

CountsBackup_before_checks(stage, backup) == backup

CountsBackup(stage, backup) == stage = "serve" /\ backup

\* CHECK_REQUEST_IF_SPLITTING: the reply to a read the split manager rejects
SplitReply == ERR_SPLITTING

\* throttle_read_request: a rejected read is answered at once, a delayed one
\* is answered by the throttler later
ThrottleReply(thr) == IF thr = THROTTLE_REJECT THEN ERR_BUSY ELSE NO_REPLY

\* the error code sent through response_client_read, if any
ReadReply_silent_when_stale(stage, thr) ==
    CASE stage = "acl" -> ERR_ACL_DENY
      [] stage = "split" -> SplitReply
      [] stage = "status" -> ERR_INVALID_STATE
      [] stage = "throttle" -> ThrottleReply(thr)
      [] OTHER -> NO_REPLY

ReadReply(stage, thr) ==
    CASE stage = "acl" -> ERR_ACL_DENY
      [] stage = "split" -> SplitReply
      [] stage = "status" -> ERR_INVALID_STATE
      [] stage = "throttle" -> ThrottleReply(thr)
      [] stage = "stale" -> ERR_INVALID_STATE
      [] OTHER -> NO_REPLY

\* ex: the execute_mutation call in progress: its decree, the role it was
\* dispatched on (line 257), the branch taken, the error of the apply, what
\* followed, and the status its last steps (line 340 and 351) observed
NoExec ==
    [out |-> "none", role |-> "none", d |-> 0, err |-> ERR_OK,
     failed |-> FALSE, prepared |-> FALSE, seen |-> "none"]

\* rd: the on_client_read call in progress: its inputs, the reply sent, and
\* whether the throttler and app.on_request were called
NoRead ==
    [read |-> FALSE, allowed |-> FALSE, splitReject |-> FALSE,
     ignore |-> FALSE, thr |-> THROTTLE_PASS, backup |-> FALSE,
     reply |-> NO_REPLY, served |-> FALSE, throttler |-> FALSE]

\* disk_migration_status, and the value of _disk_migrator after reset()
MIGRATION_IDLE == "IDLE"
MIGRATION_MOVING == "MOVING"
MIGRATION_MOVED == "MOVED"
MIGRATION_CLOSED == "CLOSED"
MIGRATOR_RELEASED == "released"

disk_migration_status ==
    {MIGRATION_IDLE, MIGRATION_MOVING, MIGRATION_MOVED, MIGRATION_CLOSED}

\* what an open replica holds besides the private log and the disk migrator:
\* the background work close() cancels and the handles it and the
\* destructor release
BackgroundWork == {"checkpoint_timer", "app_background", "tracked_tasks"}

ManagerHandles ==
    {"duplication_mgr", "backup_mgr", "bulk_loader", "split_mgr"}

AllLive ==
    BackgroundWork \cup ManagerHandles
        \cup {"preparing", "app", "counter_private_log_size", "prepare_list"}

\* cl: the close() calls: phase is open (none made), closing (one is in
\* progress, at statement pc of CloseOrder), closed or destroyed; status and
\* migration are what the call in progress found at its entry; after holds
\* the replica's state at the return of each call
NoClose ==
    [phase |-> "open", pc |-> 0, destructor |-> FALSE,
     status |-> PS_INACTIVE, migration |-> MIGRATION_IDLE, after |-> <<>>]

\* lp: the last_prepared_decree call made last and the decree it returned
NoLastPrepared == [called |-> FALSE, r |-> 0]

\* delayed: the read request the throttler holds (pending) with its
\* is_backup_request flag and the status the replica had when the read was
\* delayed; resumed once the request has been handed back to on_client_read
NoDelayed ==
    [pending |-> FALSE, resumed |-> FALSE, backup |-> FALSE,
     status |-> PS_INACTIVE]

\* the replica's executor is free: no call is in progress, and the replica
\* has not been closed
Idle == ~rd.read /\ ex.out = "none" /\ cl.phase = "open"

on_client_read(allowed, splitReject, ignore, thr, backup) ==
    LET stage == ReadStage(allowed, splitReject, status, ignore, thr, backup,
                           last_committed_decree,
                           last_prepare_decree_on_new_primary)
    IN  /\ ~crashed
        /\ Idle
        /\ CountsBackup(stage, backup) => backup_request_qps < MaxQps
        /\ rd' = [read |-> TRUE, allowed |-> allowed,
                  splitReject |-> splitReject, ignore |-> ignore,
                  thr |-> thr, backup |-> backup,
                  reply |-> ReadReply(stage, thr),
                  served |-> (stage = "serve"),
                  throttler |-> ConsultsThrottler(stage, ignore)]
        /\ ex' = ex
        /\ backup_request_qps' =
               IF CountsBackup(stage, backup)
               THEN backup_request_qps + 1
               ELSE backup_request_qps
        /\ UNCHANGED <<status, ballot, app_last_committed, app_last_flushed,
                       app_last_durable, prepare_list, last_committed, max_prepared,
                       checkpoint_is_running, learning_status, is_caught_up,
                       last_prepare_decree_on_new_primary, private_log,
                       write_queue, crashed, applied, disk_migrator, live,
                       cl, meta, lp>>

\* =================================================== execute_mutation ==
\* replica::check_state_completeness: prepare >= commit >= durable
check_state_completeness(mp, lc, ld) == mp >= lc /\ lc >= ld

\* line 300-302: the learning states in which a potential secondary applies
LearnerApplies(ls) ==
    ls = LearningSucceeded \/ ls = LearningWithPrepareTransient

\* line 258-268: an inactive replica applies the next decree of the app and
\* skips any other
DispatchInactive_always(alc, d) == "apply"

DispatchInactive_ge(alc, d) == IF alc + 1 >= d THEN "apply" ELSE "skip"

DispatchInactive_never(alc, d) == "skip"

DispatchInactive(alc, d) == IF alc + 1 = d THEN "apply" ELSE "skip"

\* line 327-328: a failed replica drops the commit
DispatchError_as_inactive(alc, d) == IF alc + 1 = d THEN "apply" ELSE "skip"

DispatchError(alc, d) == "drop"

\* line 279-298: a secondary applies unless its checkpoint is running
DispatchSecondary_during_checkpoint(ckpt, log, complete, alc, d) ==
    IF complete /\ alc + 1 = d THEN "apply" ELSE "fatal"

DispatchSecondary(ckpt, log, complete, alc, d) ==
    IF ~ckpt
    THEN IF complete /\ alc + 1 = d THEN "apply" ELSE "fatal"
    ELSE IF log THEN "skip" ELSE "fatal"

\* line 299-320: a learner applies once its learning status allows it
DispatchLearner_with_prepare(ls, log, alc, d) ==
    IF LearnerApplies(ls) \/ ls = LearningWithPrepare
    THEN IF alc + 1 = d THEN "apply" ELSE "fatal"
    ELSE IF log THEN "skip" ELSE "fatal"

DispatchLearner(ls, log, alc, d) ==
    IF LearnerApplies(ls)
    THEN IF alc + 1 = d THEN "apply" ELSE "fatal"
    ELSE IF log THEN "skip" ELSE "fatal"

\* line 321-326: the child of a split applies once it has caught up
DispatchSplit(caught, alc, d) ==
    IF caught
    THEN IF alc + 1 = d THEN "apply" ELSE "fatal"
    ELSE "skip"

\* line 257-331: the switch on status().  "apply" calls app.apply_mutation,
\* "skip" and "drop" leave the app alone, "fatal" is a failed assertion.
ExecDispatch(st, ckpt, ls, caught, log, complete, alc, d) ==
    CASE st = PS_INACTIVE -> DispatchInactive(alc, d)
      [] st = PS_PRIMARY ->
             IF complete /\ alc + 1 = d THEN "apply" ELSE "fatal"
      [] st = PS_SECONDARY -> DispatchSecondary(ckpt, log, complete, alc, d)
      [] st = PS_POTENTIAL_SECONDARY -> DispatchLearner(ls, log, alc, d)
      [] st = PS_PARTITION_SPLIT -> DispatchSplit(caught, alc, d)
      [] st = PS_ERROR -> DispatchError(alc, d)
      [] OTHER -> "fatal"

\* line 336: the error of the apply decides whether the replica fails
FailsLocally_never(err) == FALSE

FailsLocally(err) == err # ERR_OK

\* line 340: only a primary looks for the next write to prepare
WantsNextPrepare(st) == st = PS_PRIMARY

\* replication_app_base::apply_mutation: the app's last committed decree
\* after the call (it advances on success only)
apply_mutation(alc, d, err) == IF err = ERR_OK THEN d ELSE alc

\* replica::handle_local_failure: the replica becomes PS_ERROR
handle_local_failure_stays(st) == st

handle_local_failure(st) == PS_ERROR

\* the transient state of a role is dropped when the role is left; a replica
\* that fails keeps its secondary / learner / split context until close()
QueueAfter(old, new, q) == IF old = PS_PRIMARY /\ new # PS_PRIMARY THEN 0 ELSE q

CheckpointAfter(old, new, c) ==
    IF old = PS_SECONDARY /\ new \notin {PS_SECONDARY, PS_ERROR}
    THEN FALSE ELSE c

LearningAfter(old, new, ls) ==
    IF new = PS_ERROR \/ (old = new) THEN ls ELSE LearningNotStarted

CaughtUpAfter(old, new, c) ==
    IF new = PS_ERROR \/ (old = new) THEN c ELSE FALSE

\* the bound of mutations in flight on a primary (staleness_for_commit)
staleness_for_commit == 1

\* mutation_queue::check_possible_work: there is a pending write and the
\* number of mutations in flight leaves room for it
check_possible_work(q, running) == q > 0 /\ running < staleness_for_commit

\* replica::init_prepare: the next decree enters the prepare list
init_prepare(pl, mp, b) == [pl EXCEPT ![mp + 1] = new_mutation(b)]

\* prepare_list::prepare: the list's max decree after a decree is added
NextMaxDecree_stale(mp) == mp

NextMaxDecree(mp) == mp + 1

\* replica::execute_mutation(mu) for mu.decree = d, where err is the error
\* app.apply_mutation returns if it is called and lc is the prepare list's
\* last committed decree during the call
execute_mutation(d, err, lc) ==
    LET mp == max_prepared
        out == ExecDispatch(status, checkpoint_is_running, learning_status,
                            is_caught_up, private_log,
                            check_state_completeness(mp, lc, app_last_durable),
                            app_last_committed, d)
        e == IF out = "apply" THEN err ELSE ERR_OK
        st1 == IF FailsLocally(e) THEN handle_local_failure(status) ELSE status
        q1 == QueueAfter(status, st1, write_queue)
        next == WantsNextPrepare(st1) /\ check_possible_work(q1, mp - d)
    IN  /\ ~crashed
        /\ Idle
        /\ Len(applied) <= MaxDecree
        /\ last_committed' = lc
        /\ IF out = "fatal"
           THEN /\ crashed' = TRUE
                /\ ex' = [out |-> out, role |-> status, d |-> d,
                          err |-> ERR_OK, failed |-> FALSE,
                          prepared |-> FALSE, seen |-> status]
                /\ UNCHANGED <<status, app_last_committed, prepare_list,
                               max_prepared, write_queue, applied>>
           ELSE /\ crashed' = FALSE
                /\ ex' = [out |-> out, role |-> status, d |-> d, err |-> e,
                          failed |-> FailsLocally(e), prepared |-> next,
                          seen |-> st1]
                /\ applied' = IF out = "apply" THEN Append(applied, d)
                              ELSE applied
                /\ app_last_committed' =
                       IF out = "apply"
                       THEN apply_mutation(app_last_committed, d, err)
                       ELSE app_last_committed
                /\ status' = st1
                /\ prepare_list' = IF next
                                   THEN init_prepare(prepare_list, mp, ballot)
                                   ELSE prepare_list
                /\ max_prepared' = IF next THEN NextMaxDecree(mp) ELSE mp
                /\ write_queue' = IF next THEN q1 - 1 ELSE q1
        /\ UNCHANGED <<ballot, app_last_flushed, app_last_durable,
                       checkpoint_is_running, learning_status, is_caught_up,
                       last_prepare_decree_on_new_primary, private_log,
                       backup_request_qps>>
        /\ rd' = rd
        /\ UNCHANGED outer_vars

\* ===================================================== restore (meta) ==
AS_AVAILABLE == "AS_AVAILABLE"
AS_CREATING == "AS_CREATING"

\* backup_restore_constant: the keys of the envs a restore seeds
BLOCK_SERVICE_PROVIDER == "BLOCK_SERVICE_PROVIDER"
CLUSTER_NAME == "CLUSTER_NAME"
APP_NAME == "APP_NAME"
APP_ID == "APP_ID"
BACKUP_ID == "BACKUP_ID"
RESTORE_PATH == "RESTORE_PATH"

\* the values the restore requests of the model are drawn from
NewAppNames == {"new_table", "new_table_2", "new_table_3"}
ClusterNames == {"onebox"}
ProviderNames == {"local_service", "hdfs_service"}
TimeStamps == {7, 120}
RestorePaths == {"", "test_path"}

Digit(n) ==
    CASE n = 0 -> "0" [] n = 1 -> "1" [] n = 2 -> "2" [] n = 3 -> "3"
      [] n = 4 -> "4" [] n = 5 -> "5" [] n = 6 -> "6" [] n = 7 -> "7"
      [] n = 8 -> "8" [] n = 9 -> "9"

\* std::to_string of a non-negative integer
RECURSIVE to_string(_)
to_string(n) ==
    IF n < 10 THEN Digit(n) ELSE to_string(n \div 10) \o Digit(n % 10)

NoEnvs == [k \in {} |-> ""]

\* server_state::next_app_id: one more than the largest id in use
RECURSIVE MaxAppId(_)
MaxAppId(apps) ==
    IF apps = <<>> THEN 0
    ELSE LET m == MaxAppId(Tail(apps))
         IN  IF Head(apps).app_id > m THEN Head(apps).app_id ELSE m

next_app_id(apps) == MaxAppId(apps) + 1

\* the envs a restore seeds the new app with
RestoreEnvs_new_name(req) ==
    [k \in {BLOCK_SERVICE_PROVIDER, CLUSTER_NAME, APP_NAME, APP_ID,
            BACKUP_ID}
           \cup (IF req.restore_path # "" THEN {RESTORE_PATH} ELSE {}) |->
        CASE k = BLOCK_SERVICE_PROVIDER -> req.backup_provider_name
          [] k = CLUSTER_NAME -> req.cluster_name
          [] k = APP_NAME -> req.new_app_name
          [] k = APP_ID -> to_string(req.app_id)
          [] k = BACKUP_ID -> to_string(req.time_stamp)
          [] k = RESTORE_PATH -> req.restore_path]

RestoreEnvs(req) ==
    [k \in {BLOCK_SERVICE_PROVIDER, CLUSTER_NAME, APP_NAME, APP_ID,
            BACKUP_ID}
           \cup (IF req.restore_path # "" THEN {RESTORE_PATH} ELSE {}) |->
        CASE k = BLOCK_SERVICE_PROVIDER -> req.backup_provider_name
          [] k = CLUSTER_NAME -> req.cluster_name
          [] k = APP_NAME -> req.app_name
          [] k = APP_ID -> to_string(req.app_id)
          [] k = BACKUP_ID -> to_string(req.time_stamp)
          [] k = RESTORE_PATH -> req.restore_path]

\* server_state::restore_app_info(req, snapshot): the reply and the new app,
\* built from the snapshot of the old app's info
restore_app_info(apps, req, snapshot) ==
    [err |-> ERR_OK,
     app |-> [snapshot EXCEPT !.app_id = next_app_id(apps),
                              !.app_name = req.new_app_name,
                              !.status = AS_CREATING,
                              !.envs = RestoreEnvs(req)]]

\* the table the test fixture creates (SetUp: 8 partitions)
InitMeta ==
    [apps |-> <<[app_id |-> 1, app_name |-> "test_table",
                 status |-> AS_AVAILABLE, partition_count |-> 8,
                 envs |-> NoEnvs]>>,
     reply |-> <<>>]

\* a START_RESTORE request for one of the tables, under a name not in use:
\* the test reads next_app_id() and then calls restore_app_info
RestoreApp ==
    /\ Len(meta.apps) < MaxApps
    /\ \E i \in 1..Len(meta.apps), new_app_name \in NewAppNames,
          time_stamp \in TimeStamps, cluster_name \in ClusterNames,
          backup_provider_name \in ProviderNames,
          restore_path \in RestorePaths :
           LET old == meta.apps[i]
               req == [app_id |-> old.app_id, app_name |-> old.app_name,
                       new_app_name |-> new_app_name,
                       time_stamp |-> time_stamp,
                       cluster_name |-> cluster_name,
                       backup_provider_name |-> backup_provider_name,
                       restore_path |-> restore_path]
               new_app_id == next_app_id(meta.apps)
               pair == restore_app_info(meta.apps, req, old)
           IN  /\ \A j \in 1..Len(meta.apps) :
                      meta.apps[j].app_name # new_app_name
               /\ meta' = [apps |-> Append(meta.apps, pair.app),
                           reply |-> <<[req |-> req,
                                        new_app_id |-> new_app_id,
                                        err |-> pair.err,
                                        app |-> pair.app]>>]
    /\ UNCHANGED replica_vars

Init ==
    /\ meta = InitMeta
    /\ status = PS_INACTIVE
    /\ ballot = 0
    /\ app_last_committed = 0
    /\ app_last_flushed = 0
    /\ app_last_durable = 0
    /\ prepare_list = [d \in Decrees |-> NoMutation]
    /\ last_committed = 0
    /\ max_prepared = 0
    /\ checkpoint_is_running = FALSE
    /\ learning_status = LearningNotStarted
    /\ is_caught_up = FALSE
    /\ last_prepare_decree_on_new_primary = 0
    /\ private_log = TRUE
    /\ write_queue = 0
    /\ backup_request_qps = 0
    /\ crashed = FALSE
    /\ rd = NoRead
    /\ ex = NoExec
    /\ applied = <<>>
    /\ disk_migrator = MIGRATION_IDLE
    /\ live = AllLive
    /\ cl = NoClose
    /\ lp = NoLastPrepared
    /\ delayed = NoDelayed

\* the call in progress returns to the executor
Return ==
    /\ ~crashed
    /\ (rd.read \/ ex.out # "none")
    /\ rd' = NoRead
    /\ ex' = NoExec
    /\ UNCHANGED <<status, ballot, app_last_committed, app_last_flushed,
                   app_last_durable, prepare_list, last_committed,
                   max_prepared, checkpoint_is_running, learning_status,
                   is_caught_up, last_prepare_decree_on_new_primary,
                   private_log, write_queue, backup_request_qps, crashed,
                   applied, outer_vars>>

\* line 188: the throttler gives an answer only to a read that reaches it
ThrottleAnswers(allowed, splitReject, st, ignore) ==
    IF allowed /\ ~splitReject /\ ~RejectsByStatus(st) /\ ~ignore
    THEN ThrottleOutcomes
    ELSE {THROTTLE_PASS}

\* a read request: the answers of the access controller, of the split
\* manager (asked only about an allowed request) and of the throttler, and
\* the flags of the request
ClientRead ==
    /\ Idle
    /\ \E allowed \in BOOLEAN, ignore \in BOOLEAN, backup \in BOOLEAN :
           \E splitReject \in (IF allowed THEN BOOLEAN ELSE {FALSE}) :
               \E thr \in ThrottleAnswers(allowed, splitReject, status,
                                          ignore) :
                   /\ on_client_read(allowed, splitReject, ignore, thr,
                                     backup)
                   /\ delayed' = delayed

\* a read request that is followed through the throttler: a request
\* throttle_read_request delays (line 188-190) stays with the throttler, with
\* its is_backup_request flag
ThrottledRead ==
    /\ Idle
    /\ ~delayed.pending
    /\ \E allowed \in BOOLEAN, backup \in BOOLEAN :
           \E splitReject \in (IF allowed THEN BOOLEAN ELSE {FALSE}) :
               \E thr \in ThrottleAnswers(allowed, splitReject, status,
                                          FALSE) :
                   /\ on_client_read(allowed, splitReject, FALSE, thr,
                                     backup)
                   /\ delayed' =
                          IF ThrottleAnswers(allowed, splitReject, status,
                                             FALSE) = ThrottleOutcomes
                             /\ thr = THROTTLE_DELAY
                          THEN [pending |-> TRUE, resumed |-> FALSE,
                                backup |-> backup, status |-> status]
                          ELSE delayed

\* the throttler hands the delayed request back: on_client_read(request,
\* true) runs from its first line, the access controller and the split
\* manager are asked again
ResumeRead ==
    /\ Idle
    /\ delayed.pending
    /\ \E allowed \in BOOLEAN :
           \E splitReject \in (IF allowed THEN BOOLEAN ELSE {FALSE}) :
               /\ on_client_read(allowed, splitReject, TRUE, THROTTLE_PASS,
                                 delayed.backup)
               /\ delayed' = [delayed EXCEPT !.pending = FALSE,
                                             !.resumed = TRUE]

ApplyErrors == {ERR_OK, ERR_LOCAL_APP_FAILURE}

\* prepare_list::commit: the next decree is committed once it is logged, and
\* the committer bound in init_state (execute_mutation) runs on it
Commit ==
    /\ Idle
    /\ \E err \in ApplyErrors :
           LET d == last_committed + 1
           IN  /\ d \in Decrees
               /\ prepare_list[d].present
               /\ prepare_list[d].logged
               /\ execute_mutation(d, err, d)

\* a commit delivered again for a decree the prepare list still holds
\* (re-entry from recovery)
ReExecute ==
    /\ Idle
    /\ \E d \in Decrees, err \in ApplyErrors :
           /\ d <= last_committed
           /\ prepare_list[d].present
           /\ execute_mutation(d, err, last_committed)

\* on_client_write on the primary: the write is prepared at once when the
\* mutations in flight leave room, and waits in the write queue otherwise
ClientWrite ==
    LET mp == max_prepared_decree
    IN  /\ ~crashed /\ Idle
        /\ status = PS_PRIMARY
        /\ mp + write_queue < MaxDecree
        /\ IF mp - last_committed < staleness_for_commit /\ write_queue = 0
           THEN /\ prepare_list' = init_prepare(prepare_list, mp, ballot)
                /\ max_prepared' = NextMaxDecree(mp)
                /\ UNCHANGED write_queue
           ELSE /\ write_queue < MaxQueue
                /\ write_queue' = write_queue + 1
                /\ UNCHANGED <<prepare_list, max_prepared>>
        /\ UNCHANGED <<status, ballot, app_last_committed, app_last_flushed,
                       app_last_durable, last_committed,
                       checkpoint_is_running, learning_status, is_caught_up,
                       last_prepare_decree_on_new_primary, private_log,
                       backup_request_qps, crashed, applied>>
        /\ UNCHANGED <<rd, ex, outer_vars>>

\* a prepare from the primary accepted by a replica that follows it
OnPrepare ==
    /\ ~crashed /\ Idle
    /\ status \in {PS_SECONDARY, PS_POTENTIAL_SECONDARY, PS_PARTITION_SPLIT}
    /\ max_prepared_decree < MaxDecree
    /\ prepare_list' = init_prepare(prepare_list, max_prepared, ballot)
    /\ max_prepared' = NextMaxDecree(max_prepared)
    /\ UNCHANGED <<status, ballot, app_last_committed, app_last_flushed,
                   app_last_durable, last_committed, checkpoint_is_running,
                   learning_status, is_caught_up,
                   last_prepare_decree_on_new_primary, private_log,
                   write_queue, backup_request_qps, crashed, applied>>
    /\ UNCHANGED <<rd, ex, outer_vars>>

\* LogAdapter.append completes: the mutation gets its log offset
LogAppend ==
    /\ ~crashed /\ Idle
    /\ \E d \in Decrees :
        /\ private_log
        /\ prepare_list[d].present
        /\ ~prepare_list[d].logged
        /\ prepare_list' = [prepare_list EXCEPT ![d].logged = TRUE]
        /\ UNCHANGED <<status, ballot, app_last_committed, app_last_flushed,
                       app_last_durable, last_committed, max_prepared,
                       checkpoint_is_running, learning_status, is_caught_up,
                       last_prepare_decree_on_new_primary, private_log,
                       write_queue, backup_request_qps, crashed,
                       applied>>
        /\ UNCHANGED <<rd, ex, outer_vars>>

\* the role transitions of the design's transition matrix
AllowedTransitions(st) ==
    CASE st = PS_INACTIVE ->
             {PS_PRIMARY, PS_SECONDARY, PS_POTENTIAL_SECONDARY,
              PS_PARTITION_SPLIT, PS_ERROR}
      [] st = PS_PRIMARY ->
             {PS_INACTIVE, PS_SECONDARY, PS_PARTITION_SPLIT, PS_ERROR}
      [] st = PS_SECONDARY ->
             {PS_INACTIVE, PS_PRIMARY, PS_POTENTIAL_SECONDARY,
              PS_PARTITION_SPLIT, PS_ERROR}
      [] st = PS_POTENTIAL_SECONDARY ->
             {PS_SECONDARY, PS_INACTIVE, PS_PARTITION_SPLIT, PS_ERROR}
      [] st = PS_PARTITION_SPLIT -> {PS_ERROR}
      [] OTHER -> {}

\* update_configuration: the role and the ballot change together and the
\* ballot never decreases
update_configuration ==
    /\ ~crashed /\ Idle
    /\ \E ns \in partition_status, nb \in 0..MaxBallot :
        /\ nb >= ballot
        /\ \/ ns \in AllowedTransitions(status)
           \/ ns = status /\ nb > ballot /\ status # PS_ERROR
        /\ status' = ns
        /\ ballot' = nb
        /\ write_queue' = QueueAfter(status, ns, write_queue)
        /\ checkpoint_is_running' =
               CheckpointAfter(status, ns, checkpoint_is_running)
        /\ learning_status' = LearningAfter(status, ns, learning_status)
        /\ is_caught_up' = CaughtUpAfter(status, ns, is_caught_up)
        /\ last_prepare_decree_on_new_primary' =
               IF ns = PS_PRIMARY /\ status # PS_PRIMARY
               THEN max_prepared_decree
               ELSE last_prepare_decree_on_new_primary
        /\ UNCHANGED <<app_last_committed, app_last_flushed,
                       app_last_durable, prepare_list, last_committed, max_prepared,
                       private_log, backup_request_qps, crashed,
                       applied>>
        /\ UNCHANGED <<rd, ex, outer_vars>>

\* the decrees a catch-up replays from the private log, in order
CatchUpDecrees(alc, lc) == [i \in 1..(lc - alc) |-> alc + i]

\* mutations that are durably checkpointed leave the prepare list
Evict(pl, ld) == [d \in Decrees |-> IF d <= ld THEN NoMutation ELSE pl[d]]

\* the storage engine flushes what it has applied
AppFlush ==
    /\ ~crashed /\ Idle
    /\ app_last_flushed < app_last_committed
    /\ app_last_flushed' = app_last_committed
    /\ UNCHANGED <<status, ballot, app_last_committed, app_last_durable,
                   prepare_list, last_committed, max_prepared, checkpoint_is_running,
                   learning_status, is_caught_up,
                   last_prepare_decree_on_new_primary, private_log,
                   write_queue, backup_request_qps, crashed, applied>>
    /\ UNCHANGED <<rd, ex, outer_vars>>

\* a checkpoint of the flushed state becomes durable
AppCheckpoint ==
    /\ ~crashed /\ Idle
    /\ ~checkpoint_is_running
    /\ app_last_durable < app_last_flushed
    /\ app_last_durable' = app_last_flushed
    /\ prepare_list' = Evict(prepare_list, app_last_flushed)
    /\ UNCHANGED <<status, ballot, app_last_committed, app_last_flushed,
                   last_committed, max_prepared, checkpoint_is_running, learning_status,
                   is_caught_up, last_prepare_decree_on_new_primary,
                   private_log, write_queue, backup_request_qps, crashed, applied>>
    /\ UNCHANGED <<rd, ex, outer_vars>>

\* a secondary starts its background checkpoint
StartCheckpoint ==
    /\ ~crashed /\ Idle
    /\ status = PS_SECONDARY
    /\ ~checkpoint_is_running
    /\ checkpoint_is_running' = TRUE
    /\ UNCHANGED <<status, ballot, app_last_committed, app_last_flushed,
                   app_last_durable, prepare_list, last_committed, max_prepared,
                   learning_status, is_caught_up,
                   last_prepare_decree_on_new_primary, private_log,
                   write_queue, backup_request_qps, crashed, applied>>
    /\ UNCHANGED <<rd, ex, outer_vars>>

\* the background checkpoint completes; the commits skipped meanwhile are
\* caught up from the private log
FinishCheckpoint ==
    /\ ~crashed /\ Idle
    /\ status = PS_SECONDARY
    /\ checkpoint_is_running
    /\ checkpoint_is_running' = FALSE
    /\ app_last_flushed' = app_last_committed
    /\ app_last_durable' = app_last_committed
    /\ prepare_list' = Evict(prepare_list, app_last_committed)
    /\ applied' = applied \o CatchUpDecrees(app_last_committed, last_committed)
    /\ app_last_committed' = last_committed
    /\ UNCHANGED <<status, ballot, last_committed, max_prepared, learning_status,
                   is_caught_up, last_prepare_decree_on_new_primary,
                   private_log, write_queue, backup_request_qps, crashed>>
    /\ UNCHANGED <<rd, ex, outer_vars>>

\* the learner's progress
NextLearning(ls) ==
    CASE ls = LearningNotStarted -> {LearningWithPrepare, LearningFailed}
      [] ls = LearningWithPrepare ->
             {LearningWithPrepareTransient, LearningFailed}
      [] ls = LearningWithPrepareTransient ->
             {LearningSucceeded, LearningFailed}
      [] OTHER -> {}

\* a learning round ends; the learner has replayed the committed prefix when
\* it leaves LearningWithPrepare
LearnStep ==
    /\ ~crashed /\ Idle
    /\ \E ls \in learner_status :
        /\ status = PS_POTENTIAL_SECONDARY
        /\ ls \in NextLearning(learning_status)
        /\ learning_status' = ls
        /\ IF ls = LearningWithPrepareTransient
           THEN /\ applied' = applied \o
                       CatchUpDecrees(app_last_committed, last_committed)
                /\ app_last_committed' = last_committed
           ELSE UNCHANGED <<applied, app_last_committed>>
        /\ UNCHANGED <<status, ballot, app_last_flushed, app_last_durable,
                       prepare_list, last_committed, max_prepared, checkpoint_is_running,
                       is_caught_up, last_prepare_decree_on_new_primary,
                       private_log, write_queue, backup_request_qps, crashed>>
        /\ UNCHANGED <<rd, ex, outer_vars>>

\* the child of a split has caught up with its parent
SplitCaughtUp ==
    /\ ~crashed /\ Idle
    /\ status = PS_PARTITION_SPLIT
    /\ ~is_caught_up
    /\ is_caught_up' = TRUE
    /\ applied' = applied \o CatchUpDecrees(app_last_committed, last_committed)
    /\ app_last_committed' = last_committed
    /\ UNCHANGED <<status, ballot, app_last_flushed, app_last_durable,
                   prepare_list, last_committed, max_prepared, checkpoint_is_running,
                   learning_status, last_prepare_decree_on_new_primary,
                   private_log, write_queue, backup_request_qps, crashed>>
    /\ UNCHANGED <<rd, ex, outer_vars>>

\* =============================================== last_prepared_decree ==
\* prepare_list::get_mutation_by_decree: the mutation in the slot of decree
\* d, the null mutation when the list holds none
get_mutation_by_decree(pl, d) == IF d \in Decrees THEN pl[d] ELSE NoMutation

\* line 383: the walk goes on past mutation mu
WalkContinues_any_ballot(mu, lastBallot) == mu.present /\ mu.logged

WalkContinues_unlogged(mu, lastBallot) ==
    mu.present /\ ~(mu.ballot < lastBallot)

WalkContinues(mu, lastBallot) ==
    ~(~mu.present \/ mu.ballot < lastBallot \/ ~mu.logged)

\* line 381-388: the loop, entered with start and lastBallot
RECURSIVE LastPreparedWalk(_, _, _)
LastPreparedWalk(pl, start, lastBallot) ==
    LET mu == get_mutation_by_decree(pl, start + 1)
    IN  IF ~WalkContinues(mu, lastBallot)
        THEN start
        ELSE LastPreparedWalk(pl, start + 1, mu.ballot)

\* replica::last_prepared_decree
last_prepared_decree == LastPreparedWalk(prepare_list, last_committed_decree, 0)

\* a call of last_prepared_decree
LastPreparedDecree ==
    /\ ~crashed /\ Idle
    /\ lp' = [called |-> TRUE, r |-> last_prepared_decree]
    /\ UNCHANGED <<status, ballot, app_last_committed, app_last_flushed,
                   app_last_durable, prepare_list, last_committed,
                   max_prepared, checkpoint_is_running, learning_status,
                   is_caught_up, last_prepare_decree_on_new_primary,
                   private_log, write_queue, backup_request_qps, crashed,
                   rd, ex, applied, disk_migrator, live, cl, meta, delayed>>

\* the mutations a slot of the prepare list can hold under ballot b
Slots(b) ==
    {NoMutation}
        \cup [present : {TRUE}, pid : {get_gpid}, ballot : 0..b,
              logged : BOOLEAN]

RECURSIVE MaxOf(_)
MaxOf(S) ==
    LET x == CHOOSE y \in S : TRUE
    IN  IF S = {x}
        THEN x
        ELSE LET m == MaxOf(S \ {x}) IN IF x > m THEN x ELSE m

\* a replica with any prepare list: a mutation keeps the ballot under which
\* it was prepared when the decrees before it are prepared again under a
\* later one, and the log completes the appends in any order
PrepareInit ==
    /\ meta = InitMeta
    /\ status \in {PS_PRIMARY, PS_SECONDARY}
    /\ ballot \in 0..MaxBallot
    /\ last_committed \in 0..MaxDecree
    /\ prepare_list \in [Decrees -> Slots(ballot)]
    /\ \A d \in Decrees :
           d <= last_committed /\ prepare_list[d].present
               => prepare_list[d].logged
    /\ max_prepared =
           MaxOf({last_committed}
                     \cup {d \in Decrees : prepare_list[d].present})
    /\ app_last_committed = last_committed
    /\ app_last_flushed = 0
    /\ app_last_durable = 0
    /\ checkpoint_is_running = FALSE
    /\ learning_status = LearningNotStarted
    /\ is_caught_up = FALSE
    /\ last_prepare_decree_on_new_primary = 0
    /\ private_log = TRUE
    /\ write_queue = 0
    /\ backup_request_qps = 0
    /\ crashed = FALSE
    /\ rd = NoRead
    /\ ex = NoExec
    /\ applied = [i \in 1..last_committed |-> i]
    /\ disk_migrator = MIGRATION_IDLE
    /\ live = AllLive
    /\ cl = NoClose
    /\ lp = NoLastPrepared
    /\ delayed = NoDelayed

\* ============================================================== close ==
\* line 398: _disk_migrator->status() >= disk_migration_status::MOVED
MigrationMoved(m) == m \in {MIGRATION_MOVED, MIGRATION_CLOSED}

\* replica::close, line 396-398: the states in which close() may run
ClosePrecondition_inactive_only(st, moved) == st = PS_INACTIVE

ClosePrecondition_any(st, moved) == TRUE

ClosePrecondition(st, moved) == st = PS_ERROR \/ st = PS_INACTIVE \/ moved

\* what _disk_migrator->status() can give: the status of a live migrator,
\* anything when the pointer has been reset (a null dereference)
MigratorReads(m) ==
    IF m = MIGRATOR_RELEASED THEN disk_migration_status ELSE {m}

\* whether a statement that dereferences _disk_migrator faults: it can only
\* when the pointer has been reset
NullFaults(dereferences, m) ==
    IF dereferences /\ m = MIGRATOR_RELEASED THEN BOOLEAN ELSE {FALSE}

\* line 404-469: the statements of close() after its entry assertion, in
\* the order of the code
CloseOrder_log_first ==
    <<"private_log", "checkpoint_timer", "app_background", "tracked_tasks",
      "preparing", "contexts", "app", "disk_migrator",
      "counter_private_log_size", "duplication_mgr", "backup_mgr",
      "bulk_loader", "split_mgr">>

CloseOrder ==
    <<"checkpoint_timer", "app_background", "tracked_tasks", "preparing",
      "contexts", "private_log", "app", "disk_migrator",
      "counter_private_log_size", "duplication_mgr", "backup_mgr",
      "bulk_loader", "split_mgr">>

\* line 420-424: the contexts an INACTIVE replica must have left clean
ContextsCleaned(ckpt, ls, caught) ==
    ~ckpt /\ ls = LearningNotStarted /\ ~caught

\* line 451-456: MOVED becomes CLOSED (update_replica_dir), and the migrator
\* of a CLOSED migration is reset
MigratorAfterClose_keep(m) == m

MigratorAfterClose(m) ==
    IF m = MIGRATION_MOVED THEN MIGRATION_CLOSED
    ELSE IF m = MIGRATION_CLOSED THEN MIGRATOR_RELEASED
    ELSE m

\* line 411 and 443: the statements guarded by _app != nullptr
NeedsApp(stmt) == stmt \in {"app_background", "app"}

\* what a statement of close() releases or cancels; line 460-462: the
\* ongoing tasks of the duplication manager end when its handle is reset
Released(stmt, held) ==
    IF NeedsApp(stmt) /\ "app" \notin held
    THEN {}
    ELSE IF stmt = "duplication_mgr"
         THEN {stmt, "duplication_tasks"} \cap held
         ELSE {stmt} \cap held

\* the replica's state as a caller of close() finds it at the return
Snapshot ==
    [status |-> status, live |-> live, private_log |-> private_log,
     disk_migrator |-> disk_migrator,
     checkpoint_is_running |-> checkpoint_is_running,
     learning_status |-> learning_status, is_caught_up |-> is_caught_up]

\* replica::close is entered, by the stub or (destructor) by ~replica: the
\* assertion of line 396 is fatal; evaluating it dereferences
\* _disk_migrator when the status is neither PS_ERROR nor PS_INACTIVE
close(destructor) ==
    /\ ~crashed
    /\ ~rd.read /\ ex.out = "none"
    /\ \/ cl.phase = "open"
       \/ cl.phase = "closed" /\ destructor
    /\ \E seen \in MigratorReads(disk_migrator),
          fault \in NullFaults(status \notin {PS_ERROR, PS_INACTIVE},
                               disk_migrator) :
           IF ~fault /\ ClosePrecondition(status, MigrationMoved(seen))
           THEN /\ cl' = [cl EXCEPT !.phase = "closing", !.pc = 1,
                                    !.destructor = destructor,
                                    !.status = status, !.migration = seen]
                /\ crashed' = crashed
           ELSE /\ crashed' = TRUE
                /\ cl' = [cl EXCEPT !.destructor = destructor,
                                    !.status = status, !.migration = seen]
    /\ UNCHANGED <<status, ballot, app_last_committed, app_last_flushed,
                   app_last_durable, prepare_list, last_committed,
                   max_prepared, checkpoint_is_running, learning_status,
                   is_caught_up, last_prepare_decree_on_new_primary,
                   private_log, write_queue, backup_request_qps, rd, ex,
                   applied, disk_migrator, live, meta,
                   lp, delayed>>

Close == \E destructor \in BOOLEAN : close(destructor)

\* the next statement of the close() in progress
CloseStep ==
    /\ ~crashed
    /\ cl.phase = "closing"
    /\ cl.pc <= Len(CloseOrder)
    /\ LET stmt == CloseOrder[cl.pc]
           clean == ContextsCleaned(checkpoint_is_running, learning_status,
                                    is_caught_up)
       IN  /\ cl' = [cl EXCEPT !.pc = @ + 1]
           /\ live' = live \ Released(stmt, live)
           /\ private_log' = IF stmt = "private_log" THEN FALSE
                             ELSE private_log
           /\ write_queue' = IF stmt = "preparing" THEN 0 ELSE write_queue
           /\ IF stmt = "contexts" /\ status # PS_INACTIVE
              THEN /\ checkpoint_is_running' = FALSE
                   /\ learning_status' = LearningNotStarted
                   /\ is_caught_up' = FALSE
              ELSE UNCHANGED <<checkpoint_is_running, learning_status,
                               is_caught_up>>
           /\ \E fault \in NullFaults(stmt = "disk_migrator",
                                       disk_migrator) :
                  crashed' = \/ stmt = "contexts" /\ status = PS_INACTIVE
                                /\ ~clean
                             \/ fault
           /\ disk_migrator' =
                  IF stmt = "disk_migrator"
                     /\ disk_migrator # MIGRATOR_RELEASED
                  THEN MigratorAfterClose(disk_migrator)
                  ELSE disk_migrator
    /\ UNCHANGED <<status, ballot, app_last_committed, app_last_flushed,
                   app_last_durable, prepare_list, last_committed,
                   max_prepared, last_prepare_decree_on_new_primary,
                   backup_request_qps, rd, ex, applied, meta,
                   lp, delayed>>

\* close() returns; the destructor then deletes the prepare list
\* (line 165-168)
CloseReturn ==
    /\ ~crashed
    /\ cl.phase = "closing"
    /\ cl.pc = Len(CloseOrder) + 1
    /\ cl' = [cl EXCEPT !.phase = IF cl.destructor THEN "destroyed"
                                  ELSE "closed",
                        !.pc = 0,
                        !.after = Append(@, Snapshot)]
    /\ live' = IF cl.destructor THEN live \ {"prepare_list"} ELSE live
    /\ UNCHANGED <<status, ballot, app_last_committed, app_last_flushed,
                   app_last_durable, prepare_list, last_committed,
                   max_prepared, checkpoint_is_running, learning_status,
                   is_caught_up, last_prepare_decree_on_new_primary,
                   private_log, write_queue, backup_request_qps, crashed,
                   rd, ex, applied, disk_migrator, meta,
                   lp, delayed>>

\* line 460: "duplication_impl may have ongoing tasks": while the replica
\* holds its duplication manager, tasks of the manager start and finish, a
\* close() in progress or not
DuplicationWork ==
    /\ ~crashed
    /\ ~rd.read /\ ex.out = "none"
    /\ "duplication_mgr" \in live
    /\ live' = IF "duplication_tasks" \in live
               THEN live \ {"duplication_tasks"}
               ELSE live \cup {"duplication_tasks"}
    /\ UNCHANGED <<status, ballot, app_last_committed, app_last_flushed,
                   app_last_durable, prepare_list, last_committed,
                   max_prepared, checkpoint_is_running, learning_status,
                   is_caught_up, last_prepare_decree_on_new_primary,
                   private_log, write_queue, backup_request_qps, crashed,
                   rd, ex, applied, disk_migrator, cl, meta, lp, delayed>>

\* replica_disk_migrator: the migration of the replica's directory advances
NextMigration(m) ==
    IF m = MIGRATION_IDLE THEN {MIGRATION_MOVING}
    ELSE IF m = MIGRATION_MOVING THEN {MIGRATION_MOVED, MIGRATION_IDLE}
    ELSE {}

DiskMigrate ==
    /\ ~crashed /\ Idle
    /\ \E m \in NextMigration(disk_migrator) : disk_migrator' = m
    /\ UNCHANGED <<status, ballot, app_last_committed, app_last_flushed,
                   app_last_durable, prepare_list, last_committed,
                   max_prepared, checkpoint_is_running, learning_status,
                   is_caught_up, last_prepare_decree_on_new_primary,
                   private_log, write_queue, backup_request_qps, crashed,
                   rd, ex, applied, live, cl, meta,
                   lp, delayed>>

Next ==
    \/ ClientRead
    \/ Commit
    \/ ReExecute
    \/ ClientWrite
    \/ OnPrepare
    \/ LogAppend
    \/ update_configuration
    \/ AppFlush
    \/ AppCheckpoint
    \/ StartCheckpoint
    \/ FinishCheckpoint
    \/ LearnStep
    \/ SplitCaughtUp
    \/ Return

Spec == Init /\ [][Next]_vars

\* the life of a replica outside the read and commit paths: configuration
\* changes, the background contexts, disk migration, close() and ~replica
CloseNext ==
    \/ update_configuration
    \/ StartCheckpoint
    \/ LearnStep
    \/ SplitCaughtUp
    \/ DiskMigrate
    \/ DuplicationWork
    \/ Close
    \/ CloseStep
    \/ CloseReturn

CloseSpec == Init /\ [][CloseNext]_vars

\* the meta server restoring tables
\* the prepare list and the calls of last_prepared_decree
PrepareNext == LastPreparedDecree \/ LogAppend

PrepareSpec == PrepareInit /\ [][PrepareNext]_vars

\* the reads the throttler delays and resumes, and the role changes between
DelayNext == ThrottledRead \/ ResumeRead \/ Return \/ update_configuration

DelaySpec == Init /\ [][DelayNext]_vars

RestoreNext == RestoreApp

RestoreSpec == Init /\ [][RestoreNext]_vars

\* ================================================================ claims

\* C1: in every state in which a public operation can be entered the decrees
\* are ordered: last_durable_decree <= last_flushed_decree <=
\* last_committed_decree <= max_prepared_decree, in every role.
C1_DecreeOrder ==
    ~crashed =>
        /\ last_durable_decree <= last_flushed_decree
        /\ last_flushed_decree <= last_committed_decree
        /\ last_committed_decree <= max_prepared_decree

\* a primary that has committed two decrees, the first of them durable and
\* the second not yet flushed
C1_Witness ==
    /\ ~crashed
    /\ status = PS_PRIMARY
    /\ last_durable_decree = 1
    /\ last_flushed_decree = 1
    /\ last_committed_decree = 2
    /\ max_prepared_decree = 2

StrictlyIncreasing(seq) ==
    \A i \in 1..(Len(seq) - 1) : seq[i] < seq[i + 1]

\* C2: the decrees passed to app.apply_mutation are strictly increasing, and
\* every apply call is made for the decree app.last_committed_decree + 1: a
\* step that applies extends the history of applied decrees by the decrees
\* that follow the app's last committed decree, with no gap and in order.
C2_ApplyInOrder ==
    [][/\ Len(applied') >= Len(applied)
       /\ SubSeq(applied', 1, Len(applied)) = applied
       /\ \A i \in (Len(applied) + 1)..Len(applied') :
              applied'[i] = app_last_committed + (i - Len(applied))
       /\ StrictlyIncreasing(applied')
       /\ (ex'.out = "apply" =>
               applied' = Append(applied, app_last_committed + 1))]_vars

\* two decrees applied by execute_mutation, the second one after a role change
\* to secondary under a new ballot
C2_Witness ==
    /\ applied = <<1, 2>>
    /\ ex.out = "apply"
    /\ ex.role = PS_SECONDARY
    /\ ex.d = 2
    /\ ballot = 1
    /\ prepare_list[1].present
    /\ prepare_list[1].ballot = 0

\* C3: no decree is passed to app.apply_mutation twice, also when
\* execute_mutation runs again for the same decree, when the earlier apply of
\* the decree returned an error and when the role changed in between.
C3_ApplyAtMostOnce ==
    \A i, j \in 1..Len(applied) : i # j => applied[i] # applied[j]

\* execute_mutation has run again for a decree whose apply returned an error
\* (the app did not advance) after the replica changed role to PS_ERROR
C3_Witness ==
    /\ Len(applied) >= 1
    /\ ex.d = applied[Len(applied)]
    /\ app_last_committed < ex.d
    /\ ex.role = PS_ERROR
    /\ ex.out = "drop"

\* the branches of execute_mutation that reach the contiguity assertion
\* app.last_committed_decree + 1 == d
AssertsContiguity(st, ckpt, ls, caught) ==
    \/ st = PS_PRIMARY
    \/ st = PS_SECONDARY /\ ~ckpt
    \/ st = PS_POTENTIAL_SECONDARY /\ LearnerApplies(ls)
    \/ st = PS_PARTITION_SPLIT /\ caught

\* the app, the status and the decrees of the replica untouched
ExecFrame ==
    /\ applied' = applied
    /\ status' = status
    /\ app_last_committed' = app_last_committed
    /\ app_last_flushed' = app_last_flushed
    /\ app_last_durable' = app_last_durable
    /\ last_committed' = last_committed
    /\ max_prepared' = max_prepared

\* the step is a call of execute_mutation for a decree the app has committed
ReExecuteStep == ex'.out # "none" /\ app_last_committed >= ex'.d

\* C4 as stated: execute_mutation(mu) with app.last_committed_decree >=
\* mu.decree is a no-op in every role: no apply call, no fatal assertion, the
\* status and the decrees unchanged.
C4_Original ==
    [][ReExecuteStep => (ExecFrame /\ ~crashed' /\ ex'.out # "fatal")]_vars

\* C4 amended: execute_mutation(mu) with app.last_committed_decree >=
\* mu.decree never calls apply and leaves the status and the decrees
\* unchanged in every role; it is a no-op (skip or drop) in the branches that
\* do not assert contiguity, and in the branches that do (PRIMARY, SECONDARY
\* with no checkpoint running, a ready POTENTIAL_SECONDARY, a caught-up
\* PARTITION_SPLIT) the assertion app.last_committed_decree + 1 == d fails.
C4_ReExecute ==
    [][ReExecuteStep =>
           /\ ExecFrame
           /\ ~ex'.failed
           /\ ~ex'.prepared
           /\ ex'.out \in {"skip", "drop", "fatal"}
           /\ (ex'.out = "fatal") = crashed'
           /\ crashed' = AssertsContiguity(status, checkpoint_is_running,
                                           learning_status, is_caught_up)
       ]_vars

\* an inactive replica has skipped a commit delivered again for a decree its
\* app has committed
C4_Witness ==
    /\ ex.out = "skip"
    /\ ex.role = PS_INACTIVE
    /\ status = PS_INACTIVE
    /\ ex.d <= app_last_committed
    /\ ~crashed

\* C5: an apply error on a PRIMARY invokes handle_local_failure and makes the
\* replica PS_ERROR; from then on the status stays PS_ERROR and every
\* execute_mutation is dropped (no apply, no failure handling, no new
\* prepare), and the precondition of close() holds.
C5_FatalApplyError ==
    [][/\ (status = PS_PRIMARY /\ ex'.out = "apply" /\ ex'.err # ERR_OK)
              => /\ ex'.failed
                 /\ status' = PS_ERROR
                 /\ ~ex'.prepared
                 /\ max_prepared' = max_prepared
       /\ status = PS_ERROR =>
              /\ status' = PS_ERROR
              /\ ClosePrecondition(status', FALSE)
              /\ applied' = applied
              /\ app_last_committed' = app_last_committed
              /\ max_prepared' = max_prepared
              /\ (ex'.out # "none" =>
                      ex'.out = "drop" /\ ~ex'.failed /\ ~ex'.prepared)
       ]_vars

\* a commit has been dropped by a replica that failed on the apply error of
\* the decree it applied as primary of ballot 1
C5_Witness ==
    /\ status = PS_ERROR
    /\ ex.out = "drop"
    /\ ex.role = PS_ERROR
    /\ applied = <<1>>
    /\ app_last_committed = 0
    /\ prepare_list[1].present
    /\ prepare_list[1].ballot = 1
    /\ ballot = 1

\* the replica state an admission error must leave alone
ReadFrame ==
    /\ status' = status
    /\ ballot' = ballot
    /\ last_committed' = last_committed
    /\ max_prepared' = max_prepared
    /\ prepare_list' = prepare_list
    /\ app_last_committed' = app_last_committed
    /\ app_last_flushed' = app_last_flushed
    /\ app_last_durable' = app_last_durable
    /\ applied' = applied
    /\ backup_request_qps' = backup_request_qps

\* the primary is past its post-election window
PrimaryUpToDate ==
    status = PS_PRIMARY
    /\ last_committed_decree >= last_prepare_decree_on_new_primary

\* the read of this step got past the access, split and throttle checks
PassedAdmission(r) ==
    r.allowed /\ ~r.splitReject /\ (r.ignore \/ r.thr = THROTTLE_PASS)

\* C6: a read on an INACTIVE or POTENTIAL_SECONDARY replica that passes the
\* access and split checks is answered ERR_INVALID_STATE and app.on_request
\* is not called, for a backup read or not and for any ignore_throttling.
C6_ReadRejectedByRole ==
    [][(rd'.read /\ rd'.allowed /\ ~rd'.splitReject
        /\ status \in {PS_INACTIVE, PS_POTENTIAL_SECONDARY})
       => (rd'.reply = ERR_INVALID_STATE /\ ~rd'.served)]_vars

\* a potential secondary has refused a backup read that ignores throttling
C6_Witness ==
    /\ status = PS_POTENTIAL_SECONDARY
    /\ rd.read
    /\ rd.allowed
    /\ ~rd.splitReject
    /\ rd.backup
    /\ rd.ignore
    /\ rd.reply = ERR_INVALID_STATE

\* C7: a read that is not a backup request reaches app.on_request only on a
\* PRIMARY with last_committed_decree >= last_prepare_decree_on_new_primary;
\* in any other state a read that got past the access, split and throttle
\* checks is answered ERR_INVALID_STATE and the app is not called.
C7_NonBackupRead ==
    [][(rd'.read /\ ~rd'.backup)
       => /\ rd'.served => PrimaryUpToDate
          /\ (PassedAdmission(rd') /\ ~PrimaryUpToDate)
                 => (rd'.reply = ERR_INVALID_STATE /\ ~rd'.served)
          /\ (PassedAdmission(rd') /\ PrimaryUpToDate) => rd'.served]_vars

\* a new primary inside its post-election window has refused a read that is
\* not a backup read
C7_Witness ==
    /\ status = PS_PRIMARY
    /\ last_committed_decree < last_prepare_decree_on_new_primary
    /\ rd.read
    /\ ~rd.backup
    /\ PassedAdmission(rd)
    /\ rd.reply = ERR_INVALID_STATE

\* the backup-request counter moves by one for a served backup read and not
\* at all for any other read
BackupCounterLaw ==
    backup_request_qps' =
        IF rd'.backup /\ rd'.served THEN backup_request_qps + 1
        ELSE backup_request_qps

\* C8 as stated: a backup read bypasses only the post-election window, so it
\* is served by a PRIMARY inside the window and, the role check still in
\* force, by no other role; the counter follows the served backup reads.
C8_Original ==
    [][rd'.read
       => /\ (rd'.backup /\ rd'.served) => status = PS_PRIMARY
          /\ (rd'.backup /\ PassedAdmission(rd') /\ status = PS_PRIMARY)
                 => rd'.served
          /\ BackupCounterLaw]_vars

\* C8 amended: a backup read bypasses the whole check of the non-backup
\* reads, the PRIMARY role as well as the post-election window: once past the
\* access, split, INACTIVE / POTENTIAL_SECONDARY and throttle checks it is
\* served in any role, among them a PRIMARY inside the window; the counter is
\* incremented exactly once for each served backup read and never for a
\* rejected read or a read that is not a backup read.
C8_BackupRead ==
    [][rd'.read
       => /\ (rd'.backup /\ PassedAdmission(rd')
              /\ status \notin {PS_INACTIVE, PS_POTENTIAL_SECONDARY})
                 => rd'.served
          /\ BackupCounterLaw]_vars

\* a primary inside its post-election window has served a backup read and
\* counted it
C8_Witness ==
    /\ status = PS_PRIMARY
    /\ last_committed_decree < last_prepare_decree_on_new_primary
    /\ rd.read
    /\ rd.backup
    /\ rd.served
    /\ backup_request_qps = 1

\* C9: a read the access controller does not allow is answered ERR_ACL_DENY
\* before anything else: the throttler is not consulted, app.on_request is
\* not called and the backup-request counter does not move, in every role.
C9_AclFirst ==
    [][(rd'.read /\ ~rd'.allowed)
       => /\ rd'.reply = ERR_ACL_DENY
          /\ ~rd'.throttler
          /\ ~rd'.served
          /\ backup_request_qps' = backup_request_qps]_vars

\* a denied backup read on a replica that would reject it for its role too
C9_Witness ==
    /\ rd.read
    /\ ~rd.allowed
    /\ rd.backup
    /\ ~rd.ignore
    /\ rd.reply = ERR_ACL_DENY
    /\ status = PS_INACTIVE

\* C10: an on_client_read that ends in an admission error (ERR_ACL_DENY,
\* ERR_INVALID_STATE or the throttler's ERR_BUSY) leaves the status, the
\* ballot, last_committed_decree, the prepare list, the app state and the
\* backup-request counter as they were.
C10_AdmissionErrorFrame ==
    [][(rd'.read
        /\ rd'.reply \in {ERR_ACL_DENY, ERR_INVALID_STATE, ERR_BUSY})
       => ReadFrame]_vars

\* the throttler has rejected a backup read of a secondary that has served
\* and counted a backup read before
C10_Witness ==
    /\ rd.read
    /\ rd.backup
    /\ rd.reply = ERR_BUSY
    /\ rd.throttler
    /\ status = PS_SECONDARY
    /\ backup_request_qps = 1
    /\ last_committed >= 1

\* C11: close() proceeds with its teardown only from a state that satisfies
\* its precondition: whenever a close() call, the destructor's included, is
\* past its entry, the status it found is PS_INACTIVE or PS_ERROR or the
\* disk migration status it found is MOVED or CLOSED, and the status has not
\* changed since; while no close() has got past its entry nothing has been
\* torn down.
C11_ClosePrecondition ==
    /\ cl.phase # "open"
           => /\ cl.status = status
              /\ \/ status \in {PS_INACTIVE, PS_ERROR}
                 \/ cl.migration \in {MIGRATION_MOVED, MIGRATION_CLOSED}
    /\ cl.phase = "open" => (AllLive \subseteq live /\ private_log)

\* the destructor closes a secondary whose directory has been moved, and
\* has already closed the private log
C11_Witness ==
    /\ cl.phase = "closing"
    /\ cl.destructor
    /\ status = PS_SECONDARY
    /\ cl.migration = MIGRATION_MOVED
    /\ ~private_log

\* C12 as stated: the second close() of a replica leaves the state equal to
\* the state after the first one.
C12_Original ==
    Len(cl.after) = 2 => cl.after[2] = cl.after[1]

\* C12: a second close() (the destructor's after an explicit close)
\* completes without a fault and leaves the status, the contexts, the
\* private log, the app and the handles as the first call left them, but the
\* disk migrator only when the first call found the migration IDLE or
\* MOVING: a first call that found MOVED leaves CLOSED, and the second call
\* then resets the migrator.
C12_CloseTwice ==
    /\ crashed => Len(cl.after) = 0
    /\ (Len(cl.after) = 1 /\ cl.phase = "closed")
           => cl.after[1].disk_migrator =
                  IF cl.migration = MIGRATION_MOVED THEN MIGRATION_CLOSED
                  ELSE cl.migration
    /\ Len(cl.after) = 2
           => /\ [cl.after[2] EXCEPT !.disk_migrator =
                                         cl.after[1].disk_migrator]
                     = cl.after[1]
              /\ cl.after[2].disk_migrator =
                     IF cl.after[1].disk_migrator = MIGRATION_CLOSED
                     THEN MIGRATOR_RELEASED
                     ELSE cl.after[1].disk_migrator
              /\ (cl.after[2] = cl.after[1])
                     <=> cl.after[1].disk_migrator
                             \in {MIGRATION_IDLE, MIGRATION_MOVING}

\* a failed replica whose directory had been moved has been closed and then
\* destroyed: the first close left the migration CLOSED, the second reset
\* the migrator
C12_Witness ==
    /\ cl.phase = "destroyed"
    /\ status = PS_ERROR
    /\ Len(cl.after) = 2
    /\ cl.after[1].disk_migrator = MIGRATION_CLOSED
    /\ cl.after[2].disk_migrator = MIGRATOR_RELEASED
    /\ ~crashed

\* the execute_mutation call of this step is a commit of the next decree
\* made on a secondary whose checkpoint is running
SkippedCommitStep ==
    /\ ex.out = "none"
    /\ ex'.out # "none"
    /\ status = PS_SECONDARY
    /\ checkpoint_is_running
    /\ ex'.d = last_committed + 1

\* this step completes the checkpoint of a secondary
CheckpointCompletes ==
    /\ status = PS_SECONDARY
    /\ status' = PS_SECONDARY
    /\ checkpoint_is_running
    /\ ~checkpoint_is_running'

\* how often decree d has been passed to app.apply_mutation
TimesApplied(seq, d) == Cardinality({i \in DOMAIN seq : seq[i] = d})

ExecStep == ex.out = "none" /\ ex'.out # "none"

\* C14 as stated: the status an execute_mutation call is dispatched on is
\* the status its later steps observe.
C14_Original ==
    [][ExecStep => ex'.seen = ex'.role]_vars

\* C14: no role transition made by another operation falls inside an
\* execute_mutation call (the status and the ballot do not move between the
\* call and its return), and the status the later steps of the call observe
\* is the status it was dispatched on unless the apply returned an error:
\* the call's own handle_local_failure has then made the replica PS_ERROR
\* before the next-prepare test and the latency recording read the status.
C14_CommitAtomic ==
    [][/\ ex.out # "none" => (status' = status /\ ballot' = ballot)
       /\ ExecStep
           => /\ ex'.role = status
              /\ ex'.seen = status'
              /\ ex'.seen = IF ex'.err # ERR_OK THEN PS_ERROR ELSE ex'.role
              /\ ex'.prepared => (ex'.seen = PS_PRIMARY /\ ex'.err = ERR_OK)
      ]_vars

\* the apply of a primary has failed: the call was dispatched on PS_PRIMARY
\* and its last steps saw PS_ERROR
C14_Witness ==
    /\ ex.out = "apply"
    /\ ex.role = PS_PRIMARY
    /\ ex.err # ERR_OK
    /\ ex.seen = PS_ERROR
    /\ status = PS_ERROR
    /\ ~ex.prepared

\* C15: restore_app_info returns ERR_OK and a new app whose id is the value
\* next_app_id() gave just before the call, whose name is req.new_app_name,
\* whose status is CREATING and whose envs are exactly the provider, the
\* cluster, the old app's name, the old app's id and the backup's time stamp
\* as strings, plus the restore path if and only if one is set.
C15_RestoreAppInfo ==
    meta.reply # <<>> =>
        LET r == meta.reply[1]
            envs == r.app.envs
        IN  /\ r.err = ERR_OK
            /\ r.app.app_id = r.new_app_id
            /\ r.app.app_name = r.req.new_app_name
            /\ r.app.status = AS_CREATING
            /\ DOMAIN envs =
                   IF r.req.restore_path # ""
                   THEN {BLOCK_SERVICE_PROVIDER, CLUSTER_NAME, APP_NAME,
                         APP_ID, BACKUP_ID, RESTORE_PATH}
                   ELSE {BLOCK_SERVICE_PROVIDER, CLUSTER_NAME, APP_NAME,
                         APP_ID, BACKUP_ID}
            /\ envs[BLOCK_SERVICE_PROVIDER] = r.req.backup_provider_name
            /\ envs[CLUSTER_NAME] = r.req.cluster_name
            /\ envs[APP_NAME] = r.req.app_name
            /\ envs[APP_ID] = to_string(r.req.app_id)
            /\ envs[BACKUP_ID] = to_string(r.req.time_stamp)
            /\ r.req.restore_path # ""
                   => envs[RESTORE_PATH] = r.req.restore_path
            /\ \A j \in 1..(Len(meta.apps) - 1) :
                   meta.apps[j].app_id # r.app.app_id

\* test_table, restored once as new_table, is restored again with a restore
\* path from the backup taken at time 120
C15_Witness ==
    /\ meta.reply # <<>>
    /\ meta.reply[1].req.app_name = "test_table"
    /\ meta.reply[1].req.restore_path = "test_path"
    /\ meta.reply[1].app.app_id = 3
    /\ meta.reply[1].app.envs[APP_ID] = "1"
    /\ meta.reply[1].app.envs[BACKUP_ID] = "120"
    /\ meta.reply[1].app.envs[APP_NAME] = "test_table"

\* this step is an execute_mutation call on an inactive replica
InactiveExecStep == ExecStep /\ status = PS_INACTIVE

\* C16 as stated: on an INACTIVE replica execute_mutation applies exactly
\* the next decree of the app, and no outcome of it makes the replica
\* PS_ERROR.
C16_Original ==
    [][InactiveExecStep
           => /\ (ex'.out = "apply") <=> (app_last_committed + 1 = ex'.d)
              /\ status' # PS_ERROR
      ]_vars

\* C16: on an INACTIVE replica execute_mutation applies the mutation if and
\* only if app.last_committed_decree + 1 == d and otherwise skips it with no
\* assertion and no change of the app or the status; an error returned by
\* the apply is handled as in every role and makes the replica PS_ERROR.
C16_InactiveCommit ==
    [][InactiveExecStep
           => /\ (ex'.out = "apply") <=> (app_last_committed + 1 = ex'.d)
              /\ ex'.out \in {"apply", "skip"}
              /\ ~crashed'
              /\ ex'.out = "skip"
                     => /\ status' = PS_INACTIVE
                        /\ app_last_committed' = app_last_committed
                        /\ applied' = applied
              /\ ex'.out = "apply"
                     => /\ applied' = Append(applied, ex'.d)
                        /\ status' = IF ex'.err = ERR_OK THEN PS_INACTIVE
                                     ELSE PS_ERROR
      ]_vars

\* the apply of an inactive replica has failed and the replica is PS_ERROR
C16_Witness ==
    /\ ex.out = "apply"
    /\ ex.role = PS_INACTIVE
    /\ ex.err # ERR_OK
    /\ ex.failed
    /\ status = PS_ERROR

\* this step is an execute_mutation call on a learner or on the child of a
\* split
CatchingUpExecStep ==
    ExecStep /\ status \in {PS_POTENTIAL_SECONDARY, PS_PARTITION_SPLIT}

\* the catching-up role is ready to apply
CatchingUpReady ==
    IF status = PS_POTENTIAL_SECONDARY
    THEN learning_status \in {LearningSucceeded, LearningWithPrepareTransient}
    ELSE is_caught_up

\* C17: on POTENTIAL_SECONDARY and PARTITION_SPLIT execute_mutation calls
\* app.apply_mutation only when the role is ready (learning status Succeeded
\* or WithPrepareTransient, is_caught_up), and a ready role applies the
\* decree it is handed (the call ends otherwise only in the failed
\* contiguity assertion, for a decree other than the app's next one); a role
\* that is not ready skips: the app state and the status are unchanged.
C17_CatchingUpCommit ==
    [][CatchingUpExecStep
           => /\ ex'.out = "apply" => CatchingUpReady
              /\ CatchingUpReady
                     => \/ ex'.out = "apply"
                        \/ /\ ex'.out = "fatal"
                           /\ ex'.d # app_last_committed + 1
              /\ ~CatchingUpReady
                     => /\ ex'.out = "skip"
                        /\ app_last_committed' = app_last_committed
                        /\ applied' = applied
                        /\ status' = status
                        /\ ~crashed'
      ]_vars

\* a learner in LearningWithPrepareTransient, caught up to decree 1, has
\* applied decree 2
C17_Witness ==
    /\ ex.out = "apply"
    /\ ex.role = PS_POTENTIAL_SECONDARY
    /\ learning_status = LearningWithPrepareTransient
    /\ ex.d = 2
    /\ ex.err = ERR_OK
    /\ app_last_committed = 2

\* this step is a call of last_prepared_decree
LastPreparedStep == lp' # lp

\* slot k of the prepare list is populated, is logged, and its ballot is not
\* lower than the previous slot's (than 0 for the first slot after lc)
SlotInOrder(pl, lc, k) ==
    /\ pl[k].present
    /\ pl[k].logged
    /\ pl[k].ballot >= (IF k = lc + 1 THEN 0 ELSE pl[k - 1].ballot)

PreparedUpTo(pl, lc, r) == \A k \in (lc + 1)..r : SlotInOrder(pl, lc, k)

LargestPrepared(pl, lc) ==
    CHOOSE r \in lc..MaxDecree :
        /\ PreparedUpTo(pl, lc, r)
        /\ \A q \in lc..MaxDecree : PreparedUpTo(pl, lc, q) => q <= r

\* C18: last_prepared_decree returns the largest decree r >=
\* last_committed_decree such that every slot in (last_committed_decree, r]
\* is populated, is logged, and has a ballot not lower than the previous
\* slot's (0 for the first); r lies between last_committed_decree and
\* max_prepared_decree, is last_committed_decree when the first slot is
\* empty or unlogged, and the call changes no state of the replica.
C18_LastPreparedDecree ==
    [][LastPreparedStep
           => /\ lp'.r = LargestPrepared(prepare_list, last_committed_decree)
              /\ last_committed_decree <= lp'.r
              /\ lp'.r <= max_prepared_decree
              /\ LET first == get_mutation_by_decree(prepare_list,
                                                     last_committed_decree + 1)
                 IN  ~first.present \/ ~first.logged
                         => lp'.r = last_committed_decree
              /\ UNCHANGED <<status, ballot, app_last_committed,
                             app_last_flushed, app_last_durable, prepare_list,
                             last_committed, max_prepared,
                             checkpoint_is_running, learning_status,
                             is_caught_up, last_prepare_decree_on_new_primary,
                             private_log, write_queue, backup_request_qps,
                             crashed, rd, ex, applied, disk_migrator, live,
                             cl, meta, delayed>>
      ]_vars

\* the walk from decree 0 stopped after decree 1: decree 2 is logged but was
\* prepared under a lower ballot
C18_Witness ==
    /\ lp.called
    /\ lp.r = 1
    /\ last_committed = 0
    /\ prepare_list[2].present
    /\ prepare_list[2].logged
    /\ prepare_list[2].ballot < prepare_list[1].ballot

\* the handles of ManagerHandles in the order close() resets them
ManagerOrder == <<"duplication_mgr", "backup_mgr", "bulk_loader", "split_mgr">>

\* the order of close(): the log is closed after the cancellations and the
\* clearing of the preparing mutations, the app after the log, each manager
\* handle after both and after the handles before it in ManagerOrder
ClosedInOrder ==
    /\ ~private_log => live \cap (BackgroundWork \cup {"preparing"}) = {}
    /\ "app" \notin live
           => /\ ~private_log
              /\ live \cap BackgroundWork = {}
    /\ \A i \in 1..Len(ManagerOrder) :
           ManagerOrder[i] \notin live
               => /\ ~private_log
                  /\ "app" \notin live
                  /\ \A j \in 1..(i - 1) : ManagerOrder[j] \notin live

\* C19 as stated: the order of close(), and no background task at all is
\* live once the log or the app is released.
C19_Original ==
    /\ ClosedInOrder
    /\ ~private_log \/ "app" \notin live
           => live \cap (BackgroundWork \cup {"duplication_tasks"}) = {}

\* C19: close() works in a fixed order: the checkpoint timer, the app's
\* background work and the tracked tasks are cancelled and the preparing
\* mutations cleared before the private log is closed; the log is closed
\* before the app; the manager handles are released after both, in the
\* order duplication, backup, bulk-load, split. None of the work close()
\* cancels is live once the log or the app is released; the tasks of the
\* duplication manager can be, and none is left once its handle is reset.
C19_CloseOrder ==
    /\ ClosedInOrder
    /\ "duplication_mgr" \notin live => "duplication_tasks" \notin live

\* a close() in progress has closed the log and the app and has not yet
\* reset the duplication manager, which has a task running
C19_Witness ==
    /\ cl.phase = "closing"
    /\ ~private_log
    /\ "app" \notin live
    /\ live \cap BackgroundWork = {}
    /\ "duplication_mgr" \in live
    /\ "duplication_tasks" \in live

\* this step is the on_client_read call the throttler delays
DelayStep == ~delayed.pending /\ delayed'.pending

\* this step is the on_client_read call that resumes the delayed read
ResumeStep == delayed.pending /\ ~delayed'.pending

\* the replica is no longer the primary it was when the read was delayed, or
\* has become INACTIVE
DemotedWhileWaiting ==
    \/ delayed.status = PS_PRIMARY /\ status # PS_PRIMARY
    \/ status = PS_INACTIVE

\* C20 as stated: a delayed read gets no reply and no app call at that time;
\* resumed (with ignore_throttling, the throttler is skipped), a read that
\* passes the access and split checks again is answered INVALID_STATE
\* without an app call if the replica was demoted or became INACTIVE
\* meanwhile.
C20_Original ==
    [][/\ DelayStep => rd'.reply = NO_REPLY /\ ~rd'.served
       /\ ResumeStep
              => /\ rd'.ignore
                 /\ ~rd'.throttler
                 /\ (rd'.allowed /\ ~rd'.splitReject /\ DemotedWhileWaiting)
                        => rd'.reply = ERR_INVALID_STATE /\ ~rd'.served
      ]_vars

\* C20: a read the throttler delays gets no reply and no app call at that
\* time. Resumed, it runs on_client_read again with ignore_throttling: the
\* throttler is not consulted and the role is checked again. A resumed read
\* that passes the access and split checks is answered INVALID_STATE
\* without an app call if the replica is now INACTIVE or POTENTIAL_SECONDARY,
\* or if it is not a backup request and the replica is no longer PRIMARY; a
\* backup request is served by app.on_request in every other role, a
\* replica demoted to SECONDARY included.
C20_ResumedRead ==
    [][/\ DelayStep => rd'.reply = NO_REPLY /\ ~rd'.served
       /\ ResumeStep
              => /\ rd'.ignore
                 /\ ~rd'.throttler
                 /\ rd'.backup = delayed.backup
                 /\ ~rd'.allowed => rd'.reply = ERR_ACL_DENY /\ ~rd'.served
                 /\ (rd'.allowed /\ ~rd'.splitReject)
                        => /\ status \in {PS_INACTIVE, PS_POTENTIAL_SECONDARY}
                                  => /\ rd'.reply = ERR_INVALID_STATE
                                     /\ ~rd'.served
                           /\ (~delayed.backup /\ status # PS_PRIMARY)
                                  => /\ rd'.reply = ERR_INVALID_STATE
                                     /\ ~rd'.served
                           /\ (delayed.backup
                               /\ status \notin {PS_INACTIVE,
                                                 PS_POTENTIAL_SECONDARY})
                                  => /\ rd'.served
                                     /\ rd'.reply = NO_REPLY
      ]_vars

\* a read delayed on the primary was resumed after the replica had become
\* INACTIVE and was answered INVALID_STATE without an app call
C20_Witness ==
    /\ rd.read
    /\ rd.ignore
    /\ rd.allowed
    /\ delayed.resumed
    /\ delayed.status = PS_PRIMARY
    /\ status = PS_INACTIVE
    /\ rd.reply = ERR_INVALID_STATE
    /\ ~rd.served

\* this step is an execute_mutation call dispatched on a primary
PrimaryExecStep == ExecStep /\ status = PS_PRIMARY

\* C21: on a PRIMARY, execute_mutation initiates the next prepare only after
\* a successful apply of decree d: it then asks the write queue for work
\* with the budget max_prepared_decree - d and calls init_prepare exactly
\* when there is some (the write leaves the queue and takes the decree after
\* max_prepared_decree under the current ballot); after an apply that
\* returned an error, and after the failed assertion, nothing is prepared.
C21_NextPrepare ==
    [][PrimaryExecStep
           => /\ ex'.prepared => ex'.out = "apply" /\ ex'.err = ERR_OK
              /\ (ex'.out = "apply" /\ ex'.err = ERR_OK)
                     => /\ status' = PS_PRIMARY
                        /\ ex'.prepared
                               <=> check_possible_work(write_queue,
                                                       max_prepared - ex'.d)
              /\ ex'.prepared
                     => /\ prepare_list' =
                               init_prepare(prepare_list, max_prepared, ballot)
                        /\ max_prepared' = max_prepared + 1
                        /\ write_queue' = write_queue - 1
              /\ ~ex'.prepared
                     => /\ prepare_list' = prepare_list
                        /\ max_prepared' = max_prepared
              /\ (ex'.out = "apply" /\ ex'.err # ERR_OK)
                     => /\ ~ex'.prepared
                        /\ status' = PS_ERROR
      ]_vars

\* the primary has applied decree 1 and prepared the queued write as decree 2
C21_Witness ==
    /\ ex.out = "apply"
    /\ ex.role = PS_PRIMARY
    /\ ex.err = ERR_OK
    /\ ex.d = 1
    /\ ex.prepared
    /\ max_prepared = 2
    /\ prepare_list[2].present
    /\ ~prepare_list[2].logged
    /\ write_queue = 0

\* the statuses in which on_client_read answers before it looks at the
\* request's kind
NeverServes == {PS_INACTIVE, PS_POTENTIAL_SECONDARY}

\* C22: a backup read that passes the access, split and throttle checks is
\* served by app.on_request, with no error reply, in every status other than
\* INACTIVE and POTENTIAL_SECONDARY: in PRIMARY, SECONDARY, PARTITION_SPLIT
\* and ERROR; in those two it is not served. The status is not checked a
\* second time for a backup read.
C22_BackupReadAnyRole ==
    [][(rd'.read /\ rd'.backup /\ PassedAdmission(rd'))
           => /\ rd'.served <=> status \notin NeverServes
              /\ status \in {PS_PRIMARY, PS_SECONDARY, PS_PARTITION_SPLIT,
                             PS_ERROR}
                     => /\ rd'.served
                        /\ rd'.reply = NO_REPLY
                        /\ backup_request_qps' = backup_request_qps + 1
              /\ status' = status
      ]_vars

\* a replica in PS_ERROR has served a backup read
C22_Witness ==
    /\ status = PS_ERROR
    /\ rd.read
    /\ rd.backup
    /\ rd.allowed
    /\ ~rd.splitReject
    /\ rd.served
    /\ rd.reply = NO_REPLY

\* the error codes on_client_read itself sends through response_client_read
OwnReplies == {ERR_ACL_DENY, SplitReply, ERR_INVALID_STATE}

\* the number of the members of the finite set S that are TRUE
HowMany(S) == Cardinality({i \in DOMAIN S : S[i]})

\* C23: every on_client_read call has exactly one outcome: it sends one
\* error reply itself (ACL_DENY, the split error or INVALID_STATE), or
\* throttle_read_request takes the request (the throttler then owns the
\* response: none now for a delayed request, its own busy reply for a
\* rejected one), or app.on_request is called and no error is replied; no
\* call has two of these outcomes and none has none.
C23_OneOutcome ==
    [][rd'.read
           => LET replied == rd'.reply \in OwnReplies
                  throttled == rd'.throttler /\ rd'.thr # THROTTLE_PASS
                  served == rd'.served
              IN  /\ HowMany(<<replied, throttled, served>>) = 1
                  /\ throttled => rd'.reply = ThrottleReply(rd'.thr)
                  /\ served => rd'.reply = NO_REPLY
                  /\ ~replied /\ ~throttled => rd'.reply = NO_REPLY
      ]_vars

\* a secondary has answered a read that is not a backup request with
\* INVALID_STATE after the throttler let it pass, and the app was not called
C23_Witness ==
    /\ rd.read
    /\ status = PS_SECONDARY
    /\ ~rd.backup
    /\ rd.throttler
    /\ rd.thr = THROTTLE_PASS
    /\ rd.reply = ERR_INVALID_STATE
    /\ ~rd.served

\* the decrees that enter the prepare list in this step
NewlyPrepared ==
    {d \in Decrees : ~prepare_list[d].present /\ prepare_list'[d].present}

\* C24: a mutation created by new_mutation carries the replica's partition
\* id and the ballot current at creation and has no log offset; a slot of
\* the prepare list that holds an unlogged mutation stops
\* last_prepared_decree below it, at its creation and for as long as the log
\* has not given it an offset: every decree in (last_committed_decree,
\* last_prepared_decree] is logged.
C24_UnloggedNotPrepared ==
    [][/\ \A d \in NewlyPrepared :
              /\ prepare_list'[d].pid = get_gpid
              /\ prepare_list'[d].ballot = ballot
              /\ ballot' = ballot
              /\ ~prepare_list'[d].logged
              /\ LastPreparedWalk(prepare_list', last_committed', 0) < d
       /\ LET r == LastPreparedWalk(prepare_list', last_committed', 0)
          IN  /\ \A d \in (last_committed' + 1)..r : prepare_list'[d].logged
              /\ \A d \in Decrees :
                     (d > last_committed' /\ prepare_list'[d].present
                      /\ ~prepare_list'[d].logged)
                         => r < d
      ]_vars

\* decree 1 is logged and decree 2, prepared after it, is not:
\* last_prepared_decree stops at 1 although the list reaches 2
C24_Witness ==
    /\ last_committed = 0
    /\ max_prepared = 2
    /\ prepare_list[1].logged
    /\ prepare_list[2] = new_mutation(ballot)
    /\ last_prepared_decree = 1
====
